---------------------------- MODULE Spec2Model ----------------------------
(***************************************************************************)
(* Model of scripts/legacy-data-pipeline.py: the Hope and MC spreadsheets  *)
(* are read row by row, suppliers and clients are aggregated into audit    *)
(* tables, and the legacy tables (suppliers, clients, trades) are built.   *)
(*                                                                         *)
(* Encoding of Python values:                                              *)
(*   str       a sequence of code points (<<71, 97>> is "Ga")              *)
(*   None      where a str is expected: the sequence None == <<-1>>, which *)
(*             is no string since -1 is no code point                      *)
(*   a cell    a record [t, s, n]: t is the Python type of the cell value  *)
(*             ("none", "str", "int", "float", "datetime"), s its text,    *)
(*             n its number (int: the value; float: the value in           *)
(*             hundredths; datetime: whole days since 1899-12-30)          *)
(*   float     prices are fixed-point hundredths (6000 is 60.0)            *)
(*   dict      a sequence of entries in insertion order                    *)
(*   print()   output to the console is not modelled                       *)
(***************************************************************************)
EXTENDS Integers, Sequences, FiniteSets, TLC

----------------------------------------------------------------------------
(* String literals of the source and of the sample sheets.                 *)

s_Galaxy == <<71, 97, 108, 97, 120, 121>>  \* "Galaxy"
s_Galaxy_Vic == <<71, 97, 108, 97, 120, 121, 32, 86, 105, 99>>  \* "Galaxy Vic"
s_Galaxy_VIC == <<71, 97, 108, 97, 120, 121, 32, 86, 73, 67>>  \* "Galaxy VIC"
s_STOCK == <<83, 84, 79, 67, 75>>  \* "STOCK"
s_Stock == <<83, 116, 111, 99, 107>>  \* "Stock"
s_In_Stock == <<73, 110, 32, 83, 116, 111, 99, 107>>  \* "In Stock"
s_Bags_by_Appointment == <<66, 97, 103, 115, 32, 98, 121, 32, 65, 112, 112, 111, 105, 110, 116, 109, 101, 110, 116>>  \* "Bags by Appointment"
s_Bags_By_Appointment == <<66, 97, 103, 115, 32, 66, 121, 32, 65, 112, 112, 111, 105, 110, 116, 109, 101, 110, 116>>  \* "Bags By Appointment"
s_BagsbyAppointment == <<66, 97, 103, 115, 98, 121, 65, 112, 112, 111, 105, 110, 116, 109, 101, 110, 116>>  \* "BagsbyAppointment"
s_Stock_Internal == <<83, 116, 111, 99, 107, 32, 40, 73, 110, 116, 101, 114, 110, 97, 108, 41>>  \* "Stock (Internal)"
s_L19_STOCK == <<76, 49, 57, 32, 83, 84, 79, 67, 75>>  \* "L19 STOCK"
s_LOCAL == <<76, 79, 67, 65, 76>>  \* "LOCAL"
s_TSUM == <<84, 83, 85, 77>>  \* "TSUM"
s_Unknown == <<85, 110, 107, 110, 111, 119, 110>>  \* "Unknown"
s_unknown == <<117, 110, 107, 110, 111, 119, 110>>  \* "unknown"
s_Empty_supplier == <<69, 109, 112, 116, 121, 32, 115, 117, 112, 112, 108, 105, 101, 114>>  \* "Empty supplier"
s_Ambiguous_supplier_name == <<65, 109, 98, 105, 103, 117, 111, 117, 115, 32, 115, 117, 112, 112, 108, 105, 101, 114, 32, 110, 97, 109, 101>>  \* "Ambiguous supplier name"
s_Multiple_statuses == <<77, 117, 108, 116, 105, 112, 108, 101, 32, 115, 116, 97, 116, 117, 115, 101, 115, 58, 32>>  \* "Multiple statuses: "
s_comma_space == <<44, 32>>  \* ", "
s_Hope == <<72, 111, 112, 101>>  \* "Hope"
s_MC == <<77, 67>>  \* "MC"
s_Acme == <<65, 99, 109, 101>>  \* "Acme"
s_ACME == <<65, 67, 77, 69>>  \* "ACME"
s_acme_padded == <<32, 97, 99, 109, 101, 32>>  \* " acme "
s_Active == <<65, 99, 116, 105, 118, 101>>  \* "Active"
s_Closed == <<67, 108, 111, 115, 101, 100>>  \* "Closed"
s_leather_tote_bag == <<108, 101, 97, 116, 104, 101, 114, 32, 116, 111, 116, 101, 32, 98, 97, 103>>  \* "leather tote bag"
s_Leather == <<76, 101, 97, 116, 104, 101, 114>>  \* "Leather"
s_hermes_paris == <<104, 101, 114, 109, 101, 115, 32, 32, 112, 97, 114, 105, 115>>  \* "hermes  paris"
s_hand_bags == <<104, 97, 110, 100, 32, 98, 97, 103, 115>>  \* "hand bags"
s_iso_2021_01_01 == <<50, 48, 50, 49, 45, 48, 49, 45, 48, 49>>  \* "2021-01-01"
s_dmy_02_01_2021 == <<48, 50, 47, 48, 49, 47, 50, 48, 50, 49>>  \* "02/01/2021"
s_price_gbp == <<163, 49, 44, 50, 51, 52, 46, 53, 48>>  \* "£1,234.50"
s_not_a_date == <<110, 47, 97>>  \* "n/a"
s_Chanel == <<67, 104, 97, 110, 101, 108>>  \* "Chanel"
s_INV1 == <<65, 49>>  \* "A1"
s_INV2 == <<66, 50>>  \* "B2"

----------------------------------------------------------------------------
(* Python values and the str methods the pipeline uses.                    *)

None == <<-1>>

\* truth value of a str-or-None value: `if raw`, `if not raw`
Truthy(v) == v # None /\ v # <<>>

PyNone == [t |-> "none", s |-> <<>>, n |-> 0]
PyStr(x) == [t |-> "str", s |-> x, n |-> 0]
PyInt(k) == [t |-> "int", s |-> <<>>, n |-> k]
PyFloat(h) == [t |-> "float", s |-> <<>>, n |-> h]
PyDatetime(d) == [t |-> "datetime", s |-> <<>>, n |-> d]

\* truth value of a cell, as any(row) tests it
CellTruthy(c) ==
    CASE c.t = "none" -> FALSE
      [] c.t = "str" -> c.s # <<>>
      [] c.t \in {"int", "float"} -> c.n # 0
      [] OTHER -> TRUE

\* value is None or value == ""
IsNoneOrEmpty(c) == c.t = "none" \/ (c.t = "str" /\ c.s = <<>>)

Whitespace == {9, 10, 11, 12, 13, 28, 29, 30, 31, 32, 133, 160}

SetMin(S) == CHOOSE x \in S : \A y \in S : x <= y
SetMax(S) == CHOOSE x \in S : \A y \in S : x >= y

LowerChar(c) == IF c \in 65..90 THEN c + 32 ELSE c
UpperChar(c) == IF c \in 97..122 THEN c - 32 ELSE c

\* str.lower()
lower(s) == [i \in 1..Len(s) |-> LowerChar(s[i])]

\* str.strip()
strip(s) ==
    LET keep == {i \in 1..Len(s) : s[i] \notin Whitespace}
    IN  IF keep = {} THEN <<>> ELSE SubSeq(s, SetMin(keep), SetMax(keep))

\* str.capitalize()
capitalize(s) ==
    [i \in 1..Len(s) |-> IF i = 1 THEN UpperChar(s[i]) ELSE LowerChar(s[i])]

\* str.replace(old, "") for a one-character old
RemoveChar(s, ch) == SelectSeq(s, LAMBDA c : c # ch)

RECURSIVE SplitFrom(_, _)
SplitFrom(s, i) ==
    LET starts == {j \in i..Len(s) : s[j] \notin Whitespace}
    IN  IF starts = {} THEN <<>>
        ELSE LET b == SetMin(starts)
                 stops == {j \in b..Len(s) : j = Len(s) \/ s[j + 1] \in Whitespace}
                 e == SetMin(stops)
             IN  <<SubSeq(s, b, e)>> \o SplitFrom(s, e + 1)

\* str.split() with no argument: the maximal runs of non-whitespace
split(s) == SplitFrom(s, 1)

RECURSIVE SplitOnFrom(_, _, _)
SplitOnFrom(s, sep, i) ==
    LET hits == {j \in i..Len(s) : s[j] = sep}
    IN  IF hits = {} THEN <<SubSeq(s, i, Len(s))>>
        ELSE <<SubSeq(s, i, SetMin(hits) - 1)>> \o SplitOnFrom(s, sep, SetMin(hits) + 1)

\* str.split(sep) for a one-character sep
SplitOn(s, sep) == SplitOnFrom(s, sep, 1)

RECURSIVE join(_, _)
\* sep.join(parts)
join(sep, parts) ==
    IF parts = <<>> THEN <<>>
    ELSE IF Len(parts) = 1 THEN parts[1]
    ELSE parts[1] \o sep \o join(sep, Tail(parts))

\* a < b on str: lexicographic by code point
StrLess(a, b) ==
    \E i \in 1..(Len(a) + 1) :
        /\ i <= Len(b)
        /\ \A j \in 1..(i - 1) : a[j] = b[j]
        /\ (i > Len(a) \/ a[i] < b[i])

RECURSIVE sorted(_)
\* sorted(list(S)) for a set S of str
sorted(S) ==
    IF S = {} THEN <<>>
    ELSE LET m == CHOOSE x \in S : \A y \in S \ {x} : StrLess(x, y)
         IN  <<m>> \o sorted(S \ {m})

Range(q) == {q[i] : i \in 1..Len(q)}

IsDigit(c) == c \in 48..57
AllDigits(s) == s # <<>> /\ \A i \in 1..Len(s) : IsDigit(s[i])

RECURSIVE ParseNat(_)
ParseNat(s) == IF s = <<>> THEN 0 ELSE 10 * ParseNat(SubSeq(s, 1, Len(s) - 1)) + (s[Len(s)] - 48)

RECURSIVE NatToStr(_)
NatToStr(k) == IF k < 10 THEN <<48 + k>> ELSE NatToStr(k \div 10) \o <<48 + (k % 10)>>

\* zero-padded decimal of width w, as strftime writes %Y, %m and %d
Pad(k, w) ==
    LET d == NatToStr(k)
    IN  IF Len(d) >= w THEN d ELSE [i \in 1..(w - Len(d)) |-> 48] \o d


----------------------------------------------------------------------------
(* The proleptic Gregorian calendar of datetime, in whole days.            *)

\* days from 1970-01-01 to the civil date y-m-d
DaysFromCivil(y, m, d) ==
    LET yy == IF m <= 2 THEN y - 1 ELSE y
        era == yy \div 400
        yoe == yy - era * 400
        mp == IF m > 2 THEN m - 3 ELSE m + 9
        doy == (153 * mp + 2) \div 5 + d - 1
        doe == yoe * 365 + yoe \div 4 - yoe \div 100 + doy
    IN  era * 146097 + doe - 719468

\* the civil date <<y, m, d>> that lies z days after 1970-01-01
CivilFromDays(z) ==
    LET zz == z + 719468
        era == zz \div 146097
        doe == zz - era * 146097
        yoe == (doe - doe \div 1460 + doe \div 36524 - doe \div 146096) \div 365
        doy == doe - (365 * yoe + yoe \div 4 - yoe \div 100)
        mp == (5 * doy + 2) \div 153
        d == doy - (153 * mp + 2) \div 5 + 1
        m == IF mp < 10 THEN mp + 3 ELSE mp - 9
        y == yoe + era * 400
    IN  <<IF m <= 2 THEN y + 1 ELSE y, m, d>>

IsLeap(y) == (y % 4 = 0 /\ y % 100 # 0) \/ y % 400 = 0

DaysInMonth(y, m) ==
    IF m = 2 THEN (IF IsLeap(y) THEN 29 ELSE 28)
    ELSE IF m \in {4, 6, 9, 11} THEN 30 ELSE 31

\* datetime(y, m, d) is constructible: otherwise the constructor raises ValueError
ValidDate(y, m, d) ==
    /\ y \in 1..9999
    /\ m \in 1..12
    /\ d \in 1..DaysInMonth(y, m)

\* the epoch taken as 1 January 1900, the day Excel displays for serial 1
excel_epoch_1900 == DaysFromCivil(1900, 1, 1)

\* datetime(1899, 12, 30), in days from 1970-01-01
excel_epoch == DaysFromCivil(1899, 12, 30)

\* strftime("%Y-%m-%d") of the civil date <<y, m, d>>
strftime(ymd) == Pad(ymd[1], 4) \o <<45>> \o Pad(ymd[2], 2) \o <<45>> \o Pad(ymd[3], 2)

\* int(value) of a number cell: a float is truncated toward zero
IntOf(c) ==
    IF c.t = "int" THEN c.n
    ELSE IF c.n >= 0 THEN c.n \div 100 ELSE -((-c.n) \div 100)

\* datetime.strptime(text, fmt).strftime("%Y-%m-%d") for the four formats of
\* parse_excel_date; None where strptime raises ValueError.
\* fmt 1: %d/%m/%Y   fmt 2: %d/%m/%y   fmt 3: %Y-%m-%d   fmt 4: %m/%d/%Y
strptime(text, fmt) ==
    LET sep == IF fmt = 3 THEN 45 ELSE 47
        tok == SplitOn(text, sep)
        \* position of the year, month and day tokens
        yi == IF fmt = 3 THEN 1 ELSE 3
        mi == IF fmt = 3 THEN 2 ELSE IF fmt = 4 THEN 1 ELSE 2
        di == IF fmt = 3 THEN 3 ELSE IF fmt = 4 THEN 2 ELSE 1
        shape == /\ Len(tok) = 3
                 /\ \A i \in 1..3 : AllDigits(tok[i])
                 /\ Len(tok[yi]) = (IF fmt = 2 THEN 2 ELSE 4)
                 /\ Len(tok[mi]) \in 1..2
                 /\ Len(tok[di]) \in 1..2
        yraw == ParseNat(tok[yi])
        y == IF fmt = 2 THEN (IF yraw < 69 THEN 2000 + yraw ELSE 1900 + yraw) ELSE yraw
        m == ParseNat(tok[mi])
        d == ParseNat(tok[di])
    IN  IF shape /\ ValidDate(y, m, d) THEN strftime(<<y, m, d>>) ELSE None

DateFormats == 1..4

parse_excel_date(value) ==
    IF IsNoneOrEmpty(value) THEN None
    ELSE IF value.t = "datetime" THEN strftime(CivilFromDays(excel_epoch + value.n))
    ELSE IF value.t \in {"int", "float"} THEN
        LET ymd == CivilFromDays(excel_epoch + IntOf(value))
        IN  IF ymd[1] \in 1..9999 THEN strftime(ymd) ELSE None
    ELSE
        LET ok == {f \in DateFormats : strptime(strip(value.s), f) # None}
        IN  IF ok = {} THEN None ELSE strptime(strip(value.s), SetMin(ok))

\* float(text) in hundredths: [ok |-> FALSE] where float raises ValueError.
\* Modelled grammar: optional sign, digits, optional point and digits; the
\* digits after the second decimal place are dropped by the fixed point.
ParseFloat(text) ==
    LET t0 == strip(text)
        signed == t0 # <<>> /\ t0[1] \in {43, 45}
        body == IF signed THEN Tail(t0) ELSE t0
        parts == SplitOn(body, 46)
        ip == parts[1]
        fp == IF Len(parts) = 2 THEN parts[2] ELSE <<>>
        shape == /\ Len(parts) \in 1..2
                 /\ ip = <<>> \/ AllDigits(ip)
                 /\ fp = <<>> \/ AllDigits(fp)
                 /\ ip # <<>> \/ fp # <<>>
        f2 == SubSeq(fp \o <<48, 48>>, 1, 2)
        mag == 100 * ParseNat(ip) + ParseNat(f2)
    IN  IF shape
        THEN [ok |-> TRUE, v |-> IF signed /\ t0[1] = 45 THEN -mag ELSE mag]
        ELSE [ok |-> FALSE, v |-> 0]

parse_price(value) ==
    IF IsNoneOrEmpty(value) THEN 0
    ELSE IF value.t = "int" THEN 100 * value.n
    ELSE IF value.t = "float" THEN value.n
    ELSE IF value.t = "str" THEN
        LET clean == RemoveChar(RemoveChar(RemoveChar(strip(value.s), 163), 36), 44)
            r == ParseFloat(clean)
        IN  IF r.ok THEN r.v ELSE 0
    ELSE 0

\* str(value) of a cell
PyStrOf(c) ==
    CASE c.t = "str" -> c.s
      [] c.t = "int" -> IF c.n < 0 THEN <<45>> \o NatToStr(-c.n) ELSE NatToStr(c.n)
      [] c.t = "float" ->
            LET a == IF c.n < 0 THEN -c.n ELSE c.n
                fr == a % 100
                frs == IF fr % 10 = 0 THEN NatToStr(fr \div 10) ELSE Pad(fr, 2)
            IN  (IF c.n < 0 THEN <<45>> ELSE <<>>) \o NatToStr(a \div 100) \o <<46>> \o frs
      [] c.t = "datetime" ->
            strftime(CivilFromDays(excel_epoch + c.n)) \o <<32, 48, 48, 58, 48, 48, 58, 48, 48>>
      [] OTHER -> <<78, 111, 110, 101>>

clean_text(value) ==
    IF IsNoneOrEmpty(value) THEN <<>> ELSE strip(PyStrOf(value))

title_case(value) ==
    IF value = <<>> THEN <<>>
    ELSE LET words == split(value)
         IN  join(<<32>>, [i \in 1..Len(words) |-> capitalize(words[i])])

----------------------------------------------------------------------------
(* Supplier normalization rules.                                           *)

SUPPLIER_AUTO_MERGE ==
    (s_Galaxy :> s_Galaxy_VIC) @@ (s_Galaxy_Vic :> s_Galaxy_VIC) @@
    (s_Galaxy_VIC :> s_Galaxy_VIC) @@ (s_STOCK :> s_Stock_Internal) @@
    (s_Stock :> s_Stock_Internal) @@ (s_In_Stock :> s_Stock_Internal) @@
    (s_Bags_by_Appointment :> s_Bags_by_Appointment) @@
    (s_Bags_By_Appointment :> s_Bags_by_Appointment) @@
    (s_BagsbyAppointment :> s_Bags_by_Appointment)

SUPPLIER_REQUIRES_REVIEW == <<s_L19_STOCK, s_LOCAL, s_TSUM>>

\* normalize_supplier with the label trimmed before the two lookups
normalize_supplier_trimmed(raw_supplier) ==
    LET label == IF raw_supplier = None THEN None ELSE strip(raw_supplier)
    IN  IF ~Truthy(raw_supplier)
        THEN [clean |-> s_Unknown, requires_review |-> TRUE, reason |-> s_Empty_supplier]
        ELSE IF label \in DOMAIN SUPPLIER_AUTO_MERGE
        THEN [clean |-> SUPPLIER_AUTO_MERGE[label], requires_review |-> FALSE,
              reason |-> None]
        ELSE IF label \in Range(SUPPLIER_REQUIRES_REVIEW)
        THEN [clean |-> label, requires_review |-> TRUE,
              reason |-> s_Ambiguous_supplier_name]
        ELSE [clean |-> raw_supplier, requires_review |-> FALSE, reason |-> None]

\* A result dict; reason = None stands for a dict without the "reason" key.
normalize_supplier(raw_supplier) ==
    IF ~Truthy(raw_supplier)
    THEN [clean |-> s_Unknown, requires_review |-> TRUE, reason |-> s_Empty_supplier]
    ELSE IF raw_supplier \in DOMAIN SUPPLIER_AUTO_MERGE
    THEN [clean |-> SUPPLIER_AUTO_MERGE[raw_supplier], requires_review |-> FALSE,
          reason |-> None]
    ELSE IF raw_supplier \in Range(SUPPLIER_REQUIRES_REVIEW)
    THEN [clean |-> raw_supplier, requires_review |-> TRUE,
          reason |-> s_Ambiguous_supplier_name]
    ELSE [clean |-> raw_supplier, requires_review |-> FALSE, reason |-> None]

\* d.get("reason", "")
GetReason(d) == IF d.reason = None THEN <<>> ELSE d.reason

----------------------------------------------------------------------------
(* Dicts as sequences of entries in insertion order.                       *)

\* index of the entry whose key is k, 0 if there is none
IndexOf(d, k) ==
    LET hit == {i \in 1..Len(d) : d[i].key = k}
    IN  IF hit = {} THEN 0 ELSE SetMin(hit)

HasKey(d, k) == IndexOf(d, k) # 0
Entry(d, k) == d[IndexOf(d, k)]

\* d[k] = e: a new key is appended, an existing key keeps its position
DictSet(d, k, e) ==
    IF HasKey(d, k) THEN [d EXCEPT ![IndexOf(d, k)] = e] ELSE Append(d, e)

----------------------------------------------------------------------------
(* load_hope_sheet / load_mc_sheet: one pass of the loop body.             *)

\* cell k (0-based) of a row through f, or the default of a missing column
Col(row, k, f(_), default) == IF Len(row) > k THEN f(row[k + 1]) ELSE default

row_dict(row, source, idx) ==
    [date |-> Col(row, 0, parse_excel_date, None),
     invoice_number |-> Col(row, 1, clean_text, <<>>),
     client_raw |-> Col(row, 2, clean_text, <<>>),
     client_status_raw |-> Col(row, 3, clean_text, <<>>),
     supplier_raw |-> Col(row, 4, clean_text, <<>>),
     item_raw |-> Col(row, 5, clean_text, <<>>),
     brand_raw |-> Col(row, 6, clean_text, <<>>),
     category_raw |-> Col(row, 7, clean_text, <<>>),
     buy_price_raw |-> Col(row, 8, parse_price, 0),
     sell_price_raw |-> Col(row, 9, parse_price, 0),
     margin_raw |-> Col(row, 10, parse_price, 0),
     source |-> source,
     row_number |-> idx]

\* any(row)
any(row) == \E i \in 1..Len(row) : CellTruthy(row[i])

\* load_row with row_number counting the rows kept, not the rows read
load_row_counted(rows, sheet, source, idx) ==
    IF idx = 1 THEN rows
    ELSE IF ~any(sheet[idx]) THEN rows
    ELSE Append(rows, row_dict(sheet[idx], source, Len(rows) + 2))

\* the rows list after the loop body has run on sheet row idx (1-based)
load_row(rows, sheet, source, idx) ==
    IF idx = 1 THEN rows
    ELSE IF ~any(sheet[idx]) THEN rows
    ELSE Append(rows, row_dict(sheet[idx], source, idx))

RECURSIVE load_from(_, _, _, _)
load_from(rows, sheet, source, idx) ==
    IF idx > Len(sheet) THEN rows
    ELSE load_from(load_row(rows, sheet, source, idx), sheet, source, idx + 1)

\* the list a whole load_*_sheet call returns
load_sheet(sheet, source) == load_from(<<>>, sheet, source, 1)

----------------------------------------------------------------------------
(* build_supplier_data.                                                    *)

\* the raw label build_supplier_data files a row's supplier_raw under
audit_supplier_raw(supplier_raw) ==
    IF ~Truthy(supplier_raw) THEN s_Unknown ELSE supplier_raw

\* the loop body recording the canonical name, not the raw label, as variant
supplier_row_clean_variants(st, row) ==
    LET raw == audit_supplier_raw(row.supplier_raw)
        norm == normalize_supplier(raw)
        clean == norm.clean
        map1 == DictSet(st.supplier_map, raw, [key |-> raw, norm |-> norm])
        fresh == [key |-> clean,
                  clean_name |-> clean,
                  raw_variants |-> {},
                  sources |-> {},
                  rows |-> <<>>,
                  requires_review |-> norm.requires_review,
                  reason |-> GetReason(norm)]
        aud1 == IF HasKey(st.supplier_audit, clean) THEN st.supplier_audit
                ELSE Append(st.supplier_audit, fresh)
        i == IndexOf(aud1, clean)
        aud2 == [aud1 EXCEPT ![i].raw_variants = @ \cup {clean},
                             ![i].sources = @ \cup {row.source},
                             ![i].rows = Append(@, row.row_number)]
    IN  [supplier_map |-> map1, supplier_audit |-> aud2]

\* supplier_map and supplier_audit after the loop body has run on one row
supplier_row(st, row) ==
    LET raw == audit_supplier_raw(row.supplier_raw)
        norm == normalize_supplier(raw)
        clean == norm.clean
        map1 == DictSet(st.supplier_map, raw, [key |-> raw, norm |-> norm])
        fresh == [key |-> clean,
                  clean_name |-> clean,
                  raw_variants |-> {},
                  sources |-> {},
                  rows |-> <<>>,
                  requires_review |-> norm.requires_review,
                  reason |-> GetReason(norm)]
        aud1 == IF HasKey(st.supplier_audit, clean) THEN st.supplier_audit
                ELSE Append(st.supplier_audit, fresh)
        i == IndexOf(aud1, clean)
        aud2 == [aud1 EXCEPT ![i].raw_variants = @ \cup {raw},
                             ![i].sources = @ \cup {row.source},
                             ![i].rows = Append(@, row.row_number)]
    IN  [supplier_map |-> map1, supplier_audit |-> aud2]

Reverse(q) == [i \in 1..Len(q) |-> q[Len(q) + 1 - i]]

\* supplier_sort with the lists sorted in descending order
supplier_sort_descending(audit) ==
    [i \in 1..Len(audit) |->
        [audit[i] EXCEPT !.raw_variants = Reverse(sorted(@)),
                         !.sources = Reverse(sorted(@))]]

\* the conversion of the sets to sorted lists
supplier_sort(audit) ==
    [i \in 1..Len(audit) |->
        [audit[i] EXCEPT !.raw_variants = sorted(@), !.sources = sorted(@)]]

RECURSIVE supplier_fold(_, _, _)
supplier_fold(st, rows, i) ==
    IF i > Len(rows) THEN st ELSE supplier_fold(supplier_row(st, rows[i]), rows, i + 1)

\* <<supplier_map, supplier_audit>> of a whole build_supplier_data call
build_supplier_data(rows) ==
    LET st == supplier_fold([supplier_map |-> <<>>, supplier_audit |-> <<>>], rows, 1)
    IN  [supplier_map |-> st.supplier_map, supplier_audit |-> supplier_sort(st.supplier_audit)]

----------------------------------------------------------------------------
(* build_client_data.                                                      *)

\* the raw label and the canonical key build_client_data files a row's
\* client_raw under
audit_client_raw(client_raw) == IF ~Truthy(client_raw) THEN s_Unknown ELSE client_raw
audit_client_clean(client_raw) == strip(lower(audit_client_raw(client_raw)))

\* the loop body with the comparison for first_seen turned round
client_row_first_latest(audit, row) ==
    LET raw == audit_client_raw(row.client_raw)
        clean == audit_client_clean(row.client_raw)
        status == row.client_status_raw
        fresh == [key |-> clean,
                  client_clean |-> clean,
                  raw_variants |-> {},
                  client_statuses |-> {},
                  sources |-> {},
                  first_seen |-> None,
                  last_seen |-> None,
                  trade_count |-> 0,
                  requires_review |-> FALSE,
                  reason |-> None]
        aud1 == IF HasKey(audit, clean) THEN audit ELSE Append(audit, fresh)
        i == IndexOf(aud1, clean)
        e == aud1[i]
        first == IF Truthy(row.date) /\ (~Truthy(e.first_seen) \/ StrLess(e.first_seen, row.date))
                 THEN row.date ELSE e.first_seen
        last == IF Truthy(row.date) /\ (~Truthy(e.last_seen) \/ StrLess(e.last_seen, row.date))
                THEN row.date ELSE e.last_seen
    IN  [aud1 EXCEPT ![i].raw_variants = @ \cup {raw},
                     ![i].client_statuses = @ \cup {status},
                     ![i].sources = @ \cup {row.source},
                     ![i].trade_count = @ + 1,
                     ![i].first_seen = first,
                     ![i].last_seen = last]

client_row(audit, row) ==
    LET raw == audit_client_raw(row.client_raw)
        clean == audit_client_clean(row.client_raw)
        status == row.client_status_raw
        fresh == [key |-> clean,
                  client_clean |-> clean,
                  raw_variants |-> {},
                  client_statuses |-> {},
                  sources |-> {},
                  first_seen |-> None,
                  last_seen |-> None,
                  trade_count |-> 0,
                  requires_review |-> FALSE,
                  reason |-> None]
        aud1 == IF HasKey(audit, clean) THEN audit ELSE Append(audit, fresh)
        i == IndexOf(aud1, clean)
        e == aud1[i]
        first == IF Truthy(row.date) /\ (~Truthy(e.first_seen) \/ StrLess(row.date, e.first_seen))
                 THEN row.date ELSE e.first_seen
        last == IF Truthy(row.date) /\ (~Truthy(e.last_seen) \/ StrLess(e.last_seen, row.date))
                THEN row.date ELSE e.last_seen
    IN  [aud1 EXCEPT ![i].raw_variants = @ \cup {raw},
                     ![i].client_statuses = @ \cup {status},
                     ![i].sources = @ \cup {row.source},
                     ![i].trade_count = @ + 1,
                     ![i].first_seen = first,
                     ![i].last_seen = last]

\* client_check with the conflict read off the raw variants, not the statuses
client_check_by_variants(audit) ==
    [i \in 1..Len(audit) |->
        LET statuses == sorted(audit[i].client_statuses)
            multi == Cardinality(audit[i].raw_variants) > 1
        IN  [audit[i] EXCEPT
                !.raw_variants = sorted(@),
                !.client_statuses = statuses,
                !.sources = sorted(@),
                !.requires_review = IF multi THEN TRUE ELSE @,
                !.reason = IF multi THEN s_Multiple_statuses \o join(s_comma_space, statuses)
                           ELSE @]]

\* the conflict check over all clients
client_check(audit) ==
    [i \in 1..Len(audit) |->
        LET statuses == sorted(audit[i].client_statuses)
            multi == Len(statuses) > 1
        IN  [audit[i] EXCEPT
                !.raw_variants = sorted(@),
                !.client_statuses = statuses,
                !.sources = sorted(@),
                !.requires_review = IF multi THEN TRUE ELSE @,
                !.reason = IF multi THEN s_Multiple_statuses \o join(s_comma_space, statuses)
                           ELSE @]]

RECURSIVE client_fold(_, _, _)
client_fold(audit, rows, i) ==
    IF i > Len(rows) THEN audit ELSE client_fold(client_row(audit, rows[i]), rows, i + 1)

\* client_audit of a whole build_client_data call
build_client_data(rows) == client_check(client_fold(<<>>, rows, 1))

----------------------------------------------------------------------------
(* build_legacy_tables and build_live_supplier_seed.                       *)

\* str(uuid.uuid4()) at the n-th call of the generator: a fresh token
uuid4(n) == <<35>> \o NatToStr(n)

\* {e[name]: str(uuid.uuid4()) for e in audit.values()}, the generator
\* having been called `calls` times before
id_map(audit, calls) ==
    [i \in 1..Len(audit) |-> [key |-> audit[i].key, id |-> uuid4(calls + i)]]

\* m.get(k, "")
GetId(m, k) == IF HasKey(m, k) THEN Entry(m, k).id ELSE <<>>

StrMin(S) == CHOOSE x \in S : \A y \in S \ {x} : StrLess(x, y)
StrMax(S) == CHOOSE x \in S : \A y \in S \ {x} : StrLess(y, x)

\* trade_supplier_clean without the merge table: the raw label as the key
trade_supplier_clean_unmerged(supplier_raw) ==
    IF Truthy(supplier_raw) THEN supplier_raw ELSE s_Unknown

\* the canonical keys build_legacy_tables recomputes from a row's raw labels
trade_supplier_clean(supplier_raw) == normalize_supplier(supplier_raw).clean
\* the client key recomputed without lower().strip()
trade_client_clean_unfolded(client_raw) ==
    IF Truthy(client_raw) THEN client_raw ELSE s_unknown

trade_client_clean(client_raw) ==
    IF Truthy(client_raw) THEN strip(lower(client_raw)) ELSE s_unknown

\* legacy_supplier with first_seen taken from the first dated row met
legacy_supplier_first_met(supplier, all, ids) ==
    LET clean == supplier.clean_name
        supplier_rows == SelectSeq(all, LAMBDA r : trade_supplier_clean(r.supplier_raw) = clean)
        dated == SelectSeq(supplier_rows, LAMBDA r : Truthy(r.date))
        dates == Range([i \in 1..Len(dated) |-> dated[i].date])
    IN  [id |-> Entry(ids, clean).id,
         supplier_clean |-> clean,
         raw_variants |-> supplier.raw_variants,
         requires_review |-> supplier.requires_review,
         reason |-> supplier.reason,
         first_seen |-> IF dates # {} THEN dated[1].date ELSE None,
         last_seen |-> IF dates # {} THEN StrMax(dates) ELSE None,
         trade_count |-> Len(supplier_rows)]

legacy_supplier(supplier, all, ids) ==
    LET clean == supplier.clean_name
        supplier_rows == SelectSeq(all, LAMBDA r : trade_supplier_clean(r.supplier_raw) = clean)
        dates == {supplier_rows[i].date : i \in {j \in 1..Len(supplier_rows) :
                                                    Truthy(supplier_rows[j].date)}}
    IN  [id |-> Entry(ids, clean).id,
         supplier_clean |-> clean,
         raw_variants |-> supplier.raw_variants,
         requires_review |-> supplier.requires_review,
         reason |-> supplier.reason,
         first_seen |-> IF dates # {} THEN StrMin(dates) ELSE None,
         last_seen |-> IF dates # {} THEN StrMax(dates) ELSE None,
         trade_count |-> Len(supplier_rows)]

build_legacy_suppliers(audit, all, ids) ==
    [i \in 1..Len(audit) |-> legacy_supplier(audit[i], all, ids)]

\* a legacy client that takes the default of .get("requires_review", False)
legacy_client_unflagged(client, ids) ==
    [id |-> Entry(ids, client.client_clean).id,
     client_clean |-> client.client_clean,
     raw_variants |-> client.raw_variants,
     client_status |-> join(s_comma_space, client.client_statuses),
     first_seen |-> client.first_seen,
     last_seen |-> client.last_seen,
     trade_count |-> client.trade_count,
     requires_review |-> FALSE]

legacy_client(client, ids) ==
    [id |-> Entry(ids, client.client_clean).id,
     client_clean |-> client.client_clean,
     raw_variants |-> client.raw_variants,
     client_status |-> join(s_comma_space, client.client_statuses),
     first_seen |-> client.first_seen,
     last_seen |-> client.last_seen,
     trade_count |-> client.trade_count,
     requires_review |-> client.requires_review]

build_legacy_clients(audit, ids) ==
    [i \in 1..Len(audit) |-> legacy_client(audit[i], ids)]

\* trade_margin with the subtraction the wrong way round
trade_margin_reversed(row) ==
    IF row.margin_raw = 0 THEN row.buy_price_raw - row.sell_price_raw ELSE row.margin_raw

\* margin of a trade: margin_raw, computed from the prices if missing
trade_margin(row) ==
    IF row.margin_raw = 0 THEN row.sell_price_raw - row.buy_price_raw ELSE row.margin_raw

\* trade_category with the whole item text in place of its first word
trade_category_whole_item(row) ==
    IF row.category_raw # <<>> THEN row.category_raw
    ELSE IF row.brand_raw # <<>> THEN title_case(row.brand_raw)
    ELSE IF row.item_raw # <<>> THEN title_case(row.item_raw)
    ELSE row.category_raw

\* category of a trade before the final title_case: inferred if empty
trade_category(row) ==
    IF row.category_raw # <<>> THEN row.category_raw
    ELSE IF row.brand_raw # <<>> THEN title_case(row.brand_raw)
    ELSE IF row.item_raw # <<>> THEN title_case(split(row.item_raw)[1])
    ELSE row.category_raw

\* json.dumps(row): the object as its key/value pairs in insertion order
json_dumps(row) ==
    <<<<"date", row.date>>, <<"invoice_number", row.invoice_number>>,
      <<"client_raw", row.client_raw>>, <<"client_status_raw", row.client_status_raw>>,
      <<"supplier_raw", row.supplier_raw>>, <<"item_raw", row.item_raw>>,
      <<"brand_raw", row.brand_raw>>, <<"category_raw", row.category_raw>>,
      <<"buy_price_raw", row.buy_price_raw>>, <<"sell_price_raw", row.sell_price_raw>>,
      <<"margin_raw", row.margin_raw>>, <<"source", row.source>>,
      <<"row_number", row.row_number>>>>

\* a trade that stores the canonical supplier name in place of the raw label
legacy_trade_clean_supplier(row, sup_ids, cli_ids, calls) ==
    [id |-> uuid4(calls + 1),
     invoice_number |-> row.invoice_number,
     trade_date |-> row.date,
     raw_client |-> row.client_raw,
     raw_supplier |-> trade_supplier_clean(row.supplier_raw),
     client_id |-> GetId(cli_ids, trade_client_clean(row.client_raw)),
     supplier_id |-> GetId(sup_ids, trade_supplier_clean(row.supplier_raw)),
     item |-> row.item_raw,
     brand |-> row.brand_raw,
     category |-> title_case(trade_category(row)),
     buy_price |-> row.buy_price_raw,
     sell_price |-> row.sell_price_raw,
     margin |-> trade_margin(row),
     source |-> row.source,
     raw_row |-> json_dumps(row)]

legacy_trade(row, sup_ids, cli_ids, calls) ==
    [id |-> uuid4(calls + 1),
     invoice_number |-> row.invoice_number,
     trade_date |-> row.date,
     raw_client |-> row.client_raw,
     raw_supplier |-> row.supplier_raw,
     client_id |-> GetId(cli_ids, trade_client_clean(row.client_raw)),
     supplier_id |-> GetId(sup_ids, trade_supplier_clean(row.supplier_raw)),
     item |-> row.item_raw,
     brand |-> row.brand_raw,
     category |-> title_case(trade_category(row)),
     buy_price |-> row.buy_price_raw,
     sell_price |-> row.sell_price_raw,
     margin |-> trade_margin(row),
     source |-> row.source,
     raw_row |-> json_dumps(row)]

build_live_supplier_seed(suppliers) ==
    [i \in 1..Len(suppliers) |->
        [id |-> suppliers[i].id,
         supplier_name |-> suppliers[i].supplier_clean,
         raw_variants |-> suppliers[i].raw_variants,
         requires_review |-> suppliers[i].requires_review,
         is_legacy |-> TRUE,
         created_from |-> "legacy-import-v1",
         default_currency |-> "GBP",
         supplier_type |-> None,
         notes |-> None,
         first_seen |-> suppliers[i].first_seen,
         last_seen |-> suppliers[i].last_seen,
         trade_count |-> suppliers[i].trade_count]]

----------------------------------------------------------------------------
(* The sheets a run may read.                                              *)

MaxHopeRows == 2
MaxMCRows == 1
MaxLen == 3

s_Date == <<68, 97, 116, 101>>  \* "Date"

\* row 1 of a sheet
HeaderRow ==
    <<PyStr(s_Date), PyNone, PyNone, PyNone, PyNone, PyNone,
      PyNone, PyNone, PyNone, PyNone, PyNone>>

\* Data rows: date, invoice, client, status, supplier, item, brand, category,
\* buy, sell, margin.
row_acme_galaxy ==
    <<PyStr(s_iso_2021_01_01), PyStr(s_INV1), PyStr(s_Acme), PyStr(s_Active),
      PyStr(s_Galaxy), PyStr(s_leather_tote_bag), PyNone, PyNone,
      PyInt(60), PyInt(100), PyInt(0)>>
row_acme_galaxy_vic ==
    <<PyInt(44200), PyStr(s_INV2), PyStr(s_acme_padded), PyStr(s_Closed),
      PyStr(s_Galaxy_Vic), PyNone, PyStr(s_hermes_paris), PyNone,
      PyStr(s_price_gbp), PyFloat(130000), PyFloat(550)>>
row_category_only ==
    <<PyStr(s_not_a_date), PyNone, PyNone, PyNone,
      PyNone, PyNone, PyNone, PyStr(s_hand_bags),
      PyNone, PyNone, PyNone>>
row_acme_tsum ==
    <<PyStr(s_dmy_02_01_2021), PyStr(s_INV1), PyStr(s_ACME), PyStr(s_Active),
      PyStr(s_TSUM), PyStr(s_Chanel), PyNone, PyNone,
      PyFloat(0), PyStr(s_not_a_date), PyInt(7)>>
row_blank ==
    <<PyNone, PyNone, PyNone, PyNone, PyNone, PyNone,
      PyNone, PyStr(<<>>), PyNone, PyNone, PyNone>>
row_zero_price ==
    <<PyNone, PyNone, PyNone, PyNone, PyNone, PyNone,
      PyNone, PyNone, PyInt(0), PyNone, PyNone>>

HopeSampleRows ==
    {row_acme_galaxy, row_acme_galaxy_vic, row_category_only, row_acme_tsum,
     row_blank, row_zero_price}
MCSampleRows == {row_acme_galaxy_vic, row_category_only, row_blank}

SeqsUpTo(S, n) == UNION {[1..k -> S] : k \in 0..n}

HopeSheets == {<<HeaderRow>> \o body : body \in SeqsUpTo(HopeSampleRows, MaxHopeRows)}
MCSheets == {<<HeaderRow>> \o body : body \in SeqsUpTo(MCSampleRows, MaxMCRows)}

----------------------------------------------------------------------------
(* The run of main().                                                      *)

VARIABLES
    hope_sheet, mc_sheet,       \* the rows of the two workbooks' active sheets
    pc,                         \* the statement main() is at
    idx,                        \* position of the loop that is running
    hope_rows, mc_rows, all_rows,
    supplier_map, supplier_audit, client_audit,
    supplier_id_map, client_id_map,
    legacy_suppliers, legacy_clients, legacy_trades,
    suppliers_live,
    uuid_calls,                 \* number of uuid.uuid4() calls made
    outputs,                    \* the files written
    fn_call                     \* the last direct call of a function

vars == <<hope_sheet, mc_sheet, pc, idx, hope_rows, mc_rows, all_rows,
          supplier_map, supplier_audit, client_audit, supplier_id_map,
          client_id_map, legacy_suppliers, legacy_clients, legacy_trades,
          suppliers_live, uuid_calls, outputs, fn_call>>

sheet_vars == <<hope_sheet, mc_sheet>>
load_vars == <<hope_rows, mc_rows, all_rows>>
audit_vars == <<supplier_map, supplier_audit, client_audit>>
table_vars == <<supplier_id_map, client_id_map, legacy_suppliers, legacy_clients,
                legacy_trades, suppliers_live, uuid_calls>>

NoCall == [fn |-> "none", arg |-> <<>>, res |-> <<>>]

Blank ==
    /\ idx = 1
    /\ hope_rows = <<>> /\ mc_rows = <<>> /\ all_rows = <<>>
    /\ supplier_map = <<>> /\ supplier_audit = <<>> /\ client_audit = <<>>
    /\ supplier_id_map = <<>> /\ client_id_map = <<>>
    /\ legacy_suppliers = <<>> /\ legacy_clients = <<>> /\ legacy_trades = <<>>
    /\ suppliers_live = <<>>
    /\ uuid_calls = 0
    /\ outputs = <<>>
    /\ fn_call = NoCall

Init ==
    /\ hope_sheet \in HopeSheets
    /\ mc_sheet \in MCSheets
    /\ pc = "load_hope"
    /\ Blank

\* load_hope_sheet: one pass of the loop over the sheet (lines 122-148)
LoadHopeRow ==
    /\ pc = "load_hope"
    /\ hope_rows' = load_row(hope_rows, hope_sheet, s_Hope, idx)
    /\ IF idx < Len(hope_sheet)
       THEN idx' = idx + 1 /\ pc' = pc
       ELSE idx' = 1 /\ pc' = "load_mc"
    /\ UNCHANGED <<sheet_vars, mc_rows, all_rows, audit_vars, table_vars, outputs, fn_call>>

\* the statement an all_rows loop is left at when all_rows is empty
AfterLoad(rows, loop, next) == IF rows = <<>> THEN next ELSE loop

\* load_mc_sheet: one pass of the loop; after the last one main concatenates
LoadMcRow ==
    /\ pc = "load_mc"
    /\ mc_rows' = load_row(mc_rows, mc_sheet, s_MC, idx)
    /\ IF idx < Len(mc_sheet)
       THEN idx' = idx + 1 /\ pc' = pc /\ all_rows' = all_rows
       ELSE /\ idx' = 1
            /\ all_rows' = hope_rows \o mc_rows'
            /\ pc' = AfterLoad(all_rows', "supplier", "supplier_sort")
    /\ UNCHANGED <<sheet_vars, hope_rows, audit_vars, table_vars, outputs, fn_call>>

\* build_supplier_data: one pass of the loop over all_rows (lines 219-243)
SupplierRow ==
    /\ pc = "supplier"
    /\ LET st == supplier_row([supplier_map |-> supplier_map,
                               supplier_audit |-> supplier_audit], all_rows[idx])
       IN  /\ supplier_map' = st.supplier_map
           /\ supplier_audit' = st.supplier_audit
    /\ IF idx < Len(all_rows)
       THEN idx' = idx + 1 /\ pc' = pc
       ELSE idx' = 1 /\ pc' = "supplier_sort"
    /\ UNCHANGED <<sheet_vars, load_vars, client_audit, table_vars, outputs, fn_call>>

\* build_supplier_data: the sets become sorted lists (lines 246-248)
SupplierSort ==
    /\ pc = "supplier_sort"
    /\ supplier_audit' = supplier_sort(supplier_audit)
    /\ pc' = AfterLoad(all_rows, "client", "client_check")
    /\ UNCHANGED <<sheet_vars, idx, load_vars, supplier_map, client_audit, table_vars,
                   outputs, fn_call>>

\* build_client_data: one pass of the loop over all_rows (lines 262-293)
ClientRow ==
    /\ pc = "client"
    /\ client_audit' = client_row(client_audit, all_rows[idx])
    /\ IF idx < Len(all_rows)
       THEN idx' = idx + 1 /\ pc' = pc
       ELSE idx' = 1 /\ pc' = "client_check"
    /\ UNCHANGED <<sheet_vars, load_vars, supplier_map, supplier_audit, table_vars,
                   outputs, fn_call>>

\* build_client_data: sorting and the conflict check (lines 296-303)
ClientCheck ==
    /\ pc = "client_check"
    /\ client_audit' = client_check(client_audit)
    /\ pc' = "id_maps"
    /\ UNCHANGED <<sheet_vars, idx, load_vars, supplier_map, supplier_audit, table_vars,
                   outputs, fn_call>>

\* build_legacy_tables: the two ID maps (lines 316-317)
BuildIdMaps ==
    /\ pc = "id_maps"
    /\ supplier_id_map' = id_map(supplier_audit, uuid_calls)
    /\ client_id_map' = id_map(client_audit, uuid_calls + Len(supplier_audit))
    /\ uuid_calls' = uuid_calls + Len(supplier_audit) + Len(client_audit)
    /\ pc' = "legacy_suppliers"
    /\ UNCHANGED <<sheet_vars, idx, load_vars, audit_vars, legacy_suppliers,
                   legacy_clients, legacy_trades, suppliers_live, outputs, fn_call>>

\* build_legacy_tables: legacy_suppliers (lines 320-338)
BuildLegacySuppliers ==
    /\ pc = "legacy_suppliers"
    /\ legacy_suppliers' = build_legacy_suppliers(supplier_audit, all_rows, supplier_id_map)
    /\ pc' = "legacy_clients"
    /\ UNCHANGED <<sheet_vars, idx, load_vars, audit_vars, supplier_id_map, client_id_map,
                   legacy_clients, legacy_trades, suppliers_live, uuid_calls, outputs,
                   fn_call>>

\* build_legacy_tables: legacy_clients (lines 341-355)
BuildLegacyClients ==
    /\ pc = "legacy_clients"
    /\ legacy_clients' = build_legacy_clients(client_audit, client_id_map)
    /\ pc' = AfterLoad(all_rows, "legacy_trades", "live_seed")
    /\ UNCHANGED <<sheet_vars, idx, load_vars, audit_vars, supplier_id_map, client_id_map,
                   legacy_suppliers, legacy_trades, suppliers_live, uuid_calls, outputs,
                   fn_call>>

\* build_legacy_tables: one pass of the loop over all_rows (lines 359-395)
LegacyTradeRow ==
    /\ pc = "legacy_trades"
    /\ legacy_trades' = Append(legacy_trades,
            legacy_trade(all_rows[idx], supplier_id_map, client_id_map, uuid_calls))
    /\ uuid_calls' = uuid_calls + 1
    /\ IF idx < Len(all_rows)
       THEN idx' = idx + 1 /\ pc' = pc
       ELSE idx' = 1 /\ pc' = "live_seed"
    /\ UNCHANGED <<sheet_vars, load_vars, audit_vars, supplier_id_map, client_id_map,
                   legacy_suppliers, legacy_clients, suppliers_live, outputs, fn_call>>

\* main step 5
BuildLiveSupplierSeed ==
    /\ pc = "live_seed"
    /\ suppliers_live' = build_live_supplier_seed(legacy_suppliers)
    /\ pc' = "write"
    /\ UNCHANGED <<sheet_vars, idx, load_vars, audit_vars, supplier_id_map, client_id_map,
                   legacy_suppliers, legacy_clients, legacy_trades, uuid_calls, outputs,
                   fn_call>>

\* main step 6: the six files, in the order they are written
WriteOutputs ==
    /\ pc = "write"
    /\ outputs' = <<"supplier_normalisation_map.json", "supplier_audit_table.json",
                    "legacy_suppliers.json", "legacy_clients.json",
                    "legacy_trades.json", "suppliers_live_seed.json">>
    /\ pc' = "summary"
    /\ UNCHANGED <<sheet_vars, idx, load_vars, audit_vars, table_vars, fn_call>>

\* main step 7: min() and max() of the dates raise ValueError on no date
Summary ==
    /\ pc = "summary"
    /\ pc' = IF \E i \in 1..Len(all_rows) : Truthy(all_rows[i].date)
             THEN "done" ELSE "raised"
    /\ UNCHANGED <<sheet_vars, idx, load_vars, audit_vars, table_vars, outputs, fn_call>>

Next ==
    \/ LoadHopeRow \/ LoadMcRow
    \/ SupplierRow \/ SupplierSort
    \/ ClientRow \/ ClientCheck
    \/ BuildIdMaps \/ BuildLegacySuppliers \/ BuildLegacyClients \/ LegacyTradeRow
    \/ BuildLiveSupplierSeed \/ WriteOutputs \/ Summary

Spec == Init /\ [][Next]_vars

----------------------------------------------------------------------------
(* Direct calls: normalize_supplier and the two client foldings applied to *)
(* one raw label at a time.                                                *)

s_galaxy == lower(s_Galaxy)
s_tsum == lower(s_TSUM)
s_Galaxy_padded == s_Galaxy \o <<32>>

SupplierInputs ==
    {None, <<>>, s_Unknown, s_Stock_Internal, s_Chanel, s_galaxy, s_tsum,
     s_Galaxy_padded, <<32>>}
    \cup DOMAIN SUPPLIER_AUTO_MERGE \cup Range(SUPPLIER_REQUIRES_REVIEW)

ClientAlphabet == {32, 65, 97}

ClientInputs ==
    {None, s_Acme, s_ACME, s_acme_padded, s_Unknown, s_unknown}
    \cup SeqsUpTo(ClientAlphabet, MaxLen)

FnInit ==
    /\ hope_sheet = <<HeaderRow>>
    /\ mc_sheet = <<HeaderRow>>
    /\ pc = "call"
    /\ Blank

call_vars == <<sheet_vars, pc, idx, load_vars, audit_vars, table_vars, outputs>>

CallNormalizeSupplier ==
    /\ pc = "call"
    /\ \E x \in SupplierInputs :
          fn_call' = [fn |-> "normalize_supplier", arg |-> x, res |-> normalize_supplier(x)]
    /\ UNCHANGED call_vars

\* the folding in build_client_data (lines 263-268)
CallAuditClientClean ==
    /\ pc = "call"
    /\ \E x \in ClientInputs :
          fn_call' = [fn |-> "audit_client_clean", arg |-> x, res |-> audit_client_clean(x)]
    /\ UNCHANGED call_vars

\* the folding in build_legacy_tables (line 361)
CallTradeClientClean ==
    /\ pc = "call"
    /\ \E x \in ClientInputs :
          fn_call' = [fn |-> "trade_client_clean", arg |-> x, res |-> trade_client_clean(x)]
    /\ UNCHANGED call_vars

\* day counts whose dates sit at month, leap-day, year and range boundaries
SerialAnchors == {0, 61, 36585, 44197, 45351, 2958465}

MaxDayOffset == 2

SerialDays == {a + k : a \in SerialAnchors, k \in -MaxDayOffset..MaxDayOffset}

\* the cells parse_excel_date is called on: whole and fractional day counts,
\* the ISO strings of their dates, and strings in the other formats
DateInputs ==
    {PyInt(n) : n \in SerialDays}
    \cup {PyFloat(100 * n + f) : n \in {d \in SerialDays : d >= 0}, f \in {0, 50, 99}}
    \cup {PyFloat(100 * n - f) : n \in {d \in SerialDays : d <= 0}, f \in {50, 99}}
    \cup {PyStr(strftime(CivilFromDays(excel_epoch + n))) :
              n \in {d \in SerialDays : d <= 2958465}}
    \cup {PyStr(s_iso_2021_01_01), PyStr(s_dmy_02_01_2021), PyStr(s_not_a_date),
          PyStr(<<>>), PyNone}

CallParseExcelDate ==
    /\ pc = "call"
    /\ \E x \in DateInputs :
          fn_call' = [fn |-> "parse_excel_date", arg |-> x, res |-> parse_excel_date(x)]
    /\ UNCHANGED call_vars

FnNext ==
    \/ CallNormalizeSupplier
    \/ CallAuditClientClean
    \/ CallTradeClientClean
    \/ CallParseExcelDate

SpecFn == FnInit /\ [][FnNext]_vars

----------------------------------------------------------------------------
(* A whole run as a function of the two sheets, for comparing runs.        *)

\* main(): the collections written for the sheets h and m (lines 441-471)
main_tables(h, m) ==
    LET rows == load_sheet(h, s_Hope) \o load_sheet(m, s_MC)
        sd == build_supplier_data(rows)
        ca == build_client_data(rows)
        sids == id_map(sd.supplier_audit, 0)
        cids == id_map(ca, Len(sd.supplier_audit))
    IN  [supplier_audit_table |-> sd.supplier_audit,
         legacy_suppliers |-> build_legacy_suppliers(sd.supplier_audit, rows, sids),
         legacy_clients |-> build_legacy_clients(ca, cids)]

RowOrders(n) == {p \in [1..n -> 1..n] : \A i, j \in 1..n : p[i] = p[j] => i = j}

Permuted(q, p) == [i \in 1..Len(q) |-> q[p[i]]]

\* the sheets that hold the data rows of a sheet in another order
Reordered(sheet) ==
    {<<sheet[1]>> \o Permuted(Tail(sheet), p) : p \in RowOrders(Len(sheet) - 1)}

StrictlySorted(q) == \A i \in 1..(Len(q) - 1) : StrLess(q[i], q[i + 1])

NoIds(q) == [i \in 1..Len(q) |-> [q[i] EXCEPT !.id = <<>>]]
NoRows(q) == [i \in 1..Len(q) |-> [q[i] EXCEPT !.rows = <<>>]]

----------------------------------------------------------------------------
(* Claims.                                                                 *)

\* C1: referential integrity. Every emitted trade has a non-empty
\* supplier_id that is the id of exactly one record of legacy_suppliers and a
\* non-empty client_id that is the id of exactly one record of legacy_clients.
C1_ReferentialIntegrity ==
    \A i \in 1..Len(legacy_trades) :
        LET t == legacy_trades[i]
        IN  /\ t.supplier_id # <<>>
            /\ Cardinality({j \in 1..Len(legacy_suppliers) :
                               legacy_suppliers[j].id = t.supplier_id}) = 1
            /\ t.client_id # <<>>
            /\ Cardinality({j \in 1..Len(legacy_clients) :
                               legacy_clients[j].id = t.client_id}) = 1

\* a finished run with a trade of a merged supplier and a trade whose raw
\* supplier and client are empty
C1_Witness ==
    /\ pc = "done"
    /\ \E i, j \in 1..Len(legacy_trades) :
          /\ legacy_trades[i].raw_supplier \in DOMAIN SUPPLIER_AUTO_MERGE
          /\ legacy_trades[j].raw_supplier = <<>>
          /\ legacy_trades[j].raw_client = <<>>
          /\ legacy_trades[i].supplier_id # legacy_trades[j].supplier_id

SupplierView(audit) ==
    {[clean |-> audit[i].clean_name, raw_variants |-> audit[i].raw_variants,
      sources |-> audit[i].sources, requires_review |-> audit[i].requires_review,
      reason |-> audit[i].reason] : i \in 1..Len(audit)}

ClientView(audit) ==
    {[clean |-> audit[i].client_clean, raw_variants |-> audit[i].raw_variants,
      sources |-> audit[i].sources, requires_review |-> audit[i].requires_review,
      reason |-> audit[i].reason] : i \in 1..Len(audit)}

\* C2: aggregation is order-independent per entity. When both audits are
\* built, build_supplier_data and build_client_data on every permutation of
\* all_rows give the same canonical entities with the same raw_variants,
\* sources, requires_review and reason, and raw_variants and sources are
\* duplicate-free and in ascending order.
C2_OrderIndependent ==
    pc = "id_maps" =>
        /\ \A p \in RowOrders(Len(all_rows)) :
              LET rows2 == Permuted(all_rows, p)
              IN  /\ SupplierView(build_supplier_data(rows2).supplier_audit)
                        = SupplierView(supplier_audit)
                  /\ ClientView(build_client_data(rows2)) = ClientView(client_audit)
        /\ \A i \in 1..Len(supplier_audit) :
              /\ StrictlySorted(supplier_audit[i].raw_variants)
              /\ StrictlySorted(supplier_audit[i].sources)
        /\ \A i \in 1..Len(client_audit) :
              /\ StrictlySorted(client_audit[i].raw_variants)
              /\ StrictlySorted(client_audit[i].sources)

\* both audits are built, a supplier met its variants in descending order and
\* a client is flagged
C2_Witness ==
    /\ pc = "id_maps"
    /\ \E i, j \in 1..Len(all_rows) :
          /\ i < j
          /\ StrLess(all_rows[j].supplier_raw, all_rows[i].supplier_raw)
          /\ trade_supplier_clean(all_rows[j].supplier_raw)
                = trade_supplier_clean(all_rows[i].supplier_raw)
    /\ \E i \in 1..Len(client_audit) : client_audit[i].requires_review

\* C3 as stated: for every reordering of the data rows of one sheet the
\* supplier_audit_table, legacy_suppliers and legacy_clients collections are
\* the same sequences of records, ignoring only the generated identifiers.
C3_SameSequences ==
    pc = "write" =>
        \A h \in Reordered(hope_sheet) : \A m \in Reordered(mc_sheet) :
            (h = hope_sheet \/ m = mc_sheet) =>
                LET o == main_tables(h, m)
                IN  /\ o.supplier_audit_table = supplier_audit
                    /\ NoIds(o.legacy_suppliers) = NoIds(legacy_suppliers)
                    /\ NoIds(o.legacy_clients) = NoIds(legacy_clients)

\* C3 amended: for every reordering of the data rows of one sheet the three
\* collections hold the same records, ignoring the generated identifiers, the
\* position of a record in its collection and the audit's list of row numbers.
C3_SameRecords ==
    pc = "write" =>
        \A h \in Reordered(hope_sheet) : \A m \in Reordered(mc_sheet) :
            (h = hope_sheet \/ m = mc_sheet) =>
                LET o == main_tables(h, m)
                IN  /\ Range(NoRows(o.supplier_audit_table)) = Range(NoRows(supplier_audit))
                    /\ Range(NoIds(o.legacy_suppliers)) = Range(NoIds(legacy_suppliers))
                    /\ Range(NoIds(o.legacy_clients)) = Range(NoIds(legacy_clients))

\* the tables are built from a Hope sheet whose two rows belong to different
\* suppliers and carry different dates of one client
C3_Witness ==
    /\ pc = "write"
    /\ Len(hope_rows) >= 2
    /\ Len(legacy_suppliers) >= 2
    /\ \E i \in 1..Len(legacy_clients) :
          /\ legacy_clients[i].first_seen # None
          /\ legacy_clients[i].first_seen # legacy_clients[i].last_seen

\* the rows of all_rows that build_client_data files under a canonical key
ClientGroup(clean) ==
    {i \in 1..Len(all_rows) : audit_client_clean(all_rows[i].client_raw) = clean}

\* C4: once the client audit is checked, an entity is flagged for review if
\* and only if its rows carry more than one distinct client_status_raw (the
\* empty string counting); its reason is then "Multiple statuses: " followed
\* by the sorted distinct statuses joined by ", ", and an entity with one
\* status has no reason and is not flagged.
C4_MultipleStatuses ==
    pc = "id_maps" =>
        \A k \in 1..Len(client_audit) :
            LET e == client_audit[k]
                statuses == {all_rows[i].client_status_raw : i \in ClientGroup(e.client_clean)}
            IN  /\ e.requires_review <=> Cardinality(statuses) > 1
                /\ e.requires_review =>
                      e.reason = s_Multiple_statuses \o join(s_comma_space, sorted(statuses))
                /\ ~e.requires_review => e.reason = None

\* a client of two rows and two statuses, flagged, next to a client that is not
C4_Witness ==
    /\ pc = "id_maps"
    /\ \E k \in 1..Len(client_audit) :
          /\ client_audit[k].requires_review
          /\ Len(client_audit[k].client_statuses) = 2
          /\ client_audit[k].trade_count = 2
    /\ \E k \in 1..Len(client_audit) : ~client_audit[k].requires_review

\* C5: normalize_supplier follows the four-case policy in priority order.
\* Empty or None gives "Unknown", flagged, reason "Empty supplier"; else an
\* exact key of the merge table gives the mapped name, not flagged; else an
\* exact member of the review list gives the input, flagged, reason
\* "Ambiguous supplier name"; else the input, not flagged.
C5_FourCasePolicy ==
    fn_call.fn = "normalize_supplier" =>
        LET x == fn_call.arg
            r == fn_call.res
        IN  IF x = None \/ x = <<>>
            THEN r.clean = s_Unknown /\ r.requires_review /\ r.reason = s_Empty_supplier
            ELSE IF \E k \in DOMAIN SUPPLIER_AUTO_MERGE : k = x
            THEN r.clean = SUPPLIER_AUTO_MERGE[x] /\ ~r.requires_review
            ELSE IF \E k \in 1..Len(SUPPLIER_REQUIRES_REVIEW) : SUPPLIER_REQUIRES_REVIEW[k] = x
            THEN r.clean = x /\ r.requires_review /\ r.reason = s_Ambiguous_supplier_name
            ELSE r.clean = x /\ ~r.requires_review

\* normalize_supplier was called on a label that is a merge key but for a
\* trailing blank, and passed it through
C5_Witness ==
    /\ fn_call.fn = "normalize_supplier"
    /\ fn_call.arg = s_Galaxy_padded
    /\ fn_call.res.clean = s_Galaxy_padded

\* two raw labels differ only in letter case and in leading and trailing
\* whitespace; None is no label
SameLabel(x, y) == x # None /\ y # None /\ lower(strip(x)) = lower(strip(y))

\* the folding the last direct call applied
FoldOf(x) ==
    IF fn_call.fn = "audit_client_clean" THEN audit_client_clean(x) ELSE trade_client_clean(x)

RowOfTrade(i) == all_rows[i]

\* C7: margin back-fill. A trade's margin is the row's margin_raw when that
\* is non-zero and sell_price_raw - buy_price_raw when it is zero; buy_price
\* and sell_price are the row's prices unchanged.
C7_MarginBackFill ==
    \A i \in 1..Len(legacy_trades) :
        LET t == legacy_trades[i]
            r == RowOfTrade(i)
        IN  /\ r.margin_raw # 0 => t.margin = r.margin_raw
            /\ r.margin_raw = 0 => t.margin = r.sell_price_raw - r.buy_price_raw
            /\ t.buy_price = r.buy_price_raw
            /\ t.sell_price = r.sell_price_raw

\* a trade of margin_raw 0, sell 100, buy 60 has margin 40, and a trade
\* with a margin of its own keeps it
C7_Witness ==
    \E i, j \in 1..Len(legacy_trades) :
        /\ RowOfTrade(i).margin_raw = 0
        /\ legacy_trades[i].sell_price = 10000
        /\ legacy_trades[i].buy_price = 6000
        /\ legacy_trades[i].margin = 4000
        /\ RowOfTrade(j).margin_raw # 0
        /\ legacy_trades[j].margin # legacy_trades[j].sell_price - legacy_trades[j].buy_price

\* C8: category back-fill. A trade's category is the title-cased
\* category_raw if that is non-empty, else the title-cased brand_raw if that
\* is non-empty, else the title-cased first word of item_raw if that is
\* non-empty, else empty; it is a fixed point of title_case.
C8_CategoryBackFill ==
    \A i \in 1..Len(legacy_trades) :
        LET t == legacy_trades[i]
            r == RowOfTrade(i)
        IN  /\ t.category =
                  (IF r.category_raw # <<>> THEN title_case(r.category_raw)
                   ELSE IF r.brand_raw # <<>> THEN title_case(r.brand_raw)
                   ELSE IF r.item_raw # <<>> THEN title_case(Head(split(r.item_raw)))
                   ELSE <<>>)
            /\ title_case(t.category) = t.category

\* the item "leather tote bag" without category and brand gave "Leather"
C8_Witness ==
    \E i \in 1..Len(legacy_trades) :
        /\ RowOfTrade(i).category_raw = <<>>
        /\ RowOfTrade(i).brand_raw = <<>>
        /\ RowOfTrade(i).item_raw = s_leather_tote_bag
        /\ legacy_trades[i].category = s_Leather

\* a cell holds a value: it is neither null nor the empty string
HoldsValue(c) == c.t # "none" /\ ~(c.t = "str" /\ c.s = <<>>)

\* number of RawRows that rows holds for sheet position k
Emitted(rows, k) == Cardinality({i \in 1..Len(rows) : rows[i].row_number = k})

SkipsOnlyEmpty(rows, sheet) ==
    \A k \in 2..Len(sheet) :
        IF \E c \in 1..Len(sheet[k]) : HoldsValue(sheet[k][c])
        THEN Emitted(rows, k) = 1
        ELSE Emitted(rows, k) = 0

\* C9: the ingestor skips a data row if and only if every cell of it is
\* empty or null. Once a sheet is read, a row in which some cell holds a
\* value (a numeric 0 included) has exactly one RawRow and a row of empty
\* cells has none.
C9_SkipIffAllEmpty ==
    /\ pc # "load_hope" => SkipsOnlyEmpty(hope_rows, hope_sheet)
    /\ pc \notin {"load_hope", "load_mc"} => SkipsOnlyEmpty(mc_rows, mc_sheet)

RowNumbersArePositions(rows, sheet, source) ==
    \A i \in 1..Len(rows) :
        LET n == rows[i].row_number
        IN  /\ n \in 2..Len(sheet)
            /\ rows[i] = row_dict(sheet[n], source, n)
            /\ i > 1 => rows[i - 1].row_number < n

\* C10: the ingestor keeps the source order and never emits the header.
\* While the sheets are read and when both are read, every RawRow is the row
\* at sheet position row_number (header = 1), so row_number is at least 2,
\* strictly increasing along the output and unique within a source; a
\* skipped row still uses up a position.
C10_RowNumbers ==
    pc \in {"load_hope", "load_mc", "supplier", "supplier_sort"} =>
        /\ RowNumbersArePositions(hope_rows, hope_sheet, s_Hope)
        /\ RowNumbersArePositions(mc_rows, mc_sheet, s_MC)

\* the Hope sheet is read, its first data row was skipped and the next one
\* emitted with row_number 3
C10_Witness ==
    /\ pc = "load_mc"
    /\ Len(hope_rows) = 1
    /\ hope_rows[1].row_number = 3
    /\ ~any(hope_sheet[2])

\* the raw row read back from its serialisation: the value stored under key
ValueOf(pairs, key) ==
    pairs[CHOOSE i \in 1..Len(pairs) : pairs[i][1] = key][2]

\* the rows the ingestor emitted for one sheet, in sheet order
RowsOf(sheet, source) ==
    LET Kept == {k \in 2..Len(sheet) : any(sheet[k])}
        Pos[j \in 0..Cardinality(Kept)] ==
            IF j = 0 THEN 1
            ELSE CHOOSE k \in Kept : k > Pos[j - 1] /\ \A h \in Kept : h > Pos[j - 1] => k <= h
    IN  [j \in 1..Cardinality(Kept) |-> row_dict(sheet[Pos[j]], source, Pos[j])]

TradeCarriesRow(t, r) ==
    /\ t.invoice_number = r.invoice_number
    /\ t.trade_date = r.date
    /\ t.raw_client = r.client_raw
    /\ t.raw_supplier = r.supplier_raw
    /\ t.source = r.source
    /\ Len(t.raw_row) = 13
    /\ ValueOf(t.raw_row, "date") = r.date
    /\ ValueOf(t.raw_row, "invoice_number") = r.invoice_number
    /\ ValueOf(t.raw_row, "client_raw") = r.client_raw
    /\ ValueOf(t.raw_row, "client_status_raw") = r.client_status_raw
    /\ ValueOf(t.raw_row, "supplier_raw") = r.supplier_raw
    /\ ValueOf(t.raw_row, "item_raw") = r.item_raw
    /\ ValueOf(t.raw_row, "brand_raw") = r.brand_raw
    /\ ValueOf(t.raw_row, "category_raw") = r.category_raw
    /\ ValueOf(t.raw_row, "buy_price_raw") = r.buy_price_raw
    /\ ValueOf(t.raw_row, "sell_price_raw") = r.sell_price_raw
    /\ ValueOf(t.raw_row, "margin_raw") = r.margin_raw
    /\ ValueOf(t.raw_row, "source") = r.source
    /\ ValueOf(t.raw_row, "row_number") = r.row_number

\* C11: build_legacy_tables emits exactly one trade per input row, in input
\* order. The raw-row sequence is all Hope rows followed by all MC rows; while
\* the trades are built the trades emitted so far are one per row already
\* visited, when the loop ends legacy_trades is as long as the row sequence, and
\* the i-th trade always carries the i-th row's invoice_number, date, raw client
\* and supplier strings, source and serialised raw row: no row is dropped,
\* duplicated or re-sorted.
C11_OneTradePerRow ==
    /\ pc = "live_seed" =>
           /\ all_rows = RowsOf(hope_sheet, s_Hope) \o RowsOf(mc_sheet, s_MC)
           /\ Len(legacy_trades) = Len(all_rows)
    /\ pc = "legacy_trades" => Len(legacy_trades) = idx - 1
    /\ pc \in {"legacy_trades", "live_seed"} =>
           /\ Len(legacy_trades) <= Len(all_rows)
           /\ \A i \in 1..Len(legacy_trades) :
                  TradeCarriesRow(legacy_trades[i], all_rows[i])

\* three trades were emitted for two Hope rows followed by one MC row with
\* different supplier labels
C11_Witness ==
    /\ pc = "live_seed"
    /\ Len(legacy_trades) = 3
    /\ legacy_trades[1].source = s_Hope
    /\ legacy_trades[2].source = s_Hope
    /\ legacy_trades[3].source = s_MC
    /\ legacy_trades[1].raw_supplier # legacy_trades[2].raw_supplier
    /\ legacy_trades[3].raw_supplier = s_Galaxy_Vic

\* the label an aggregation pass records for a raw label: "Unknown" for the
\* empty one
VariantOf(raw_label) == IF raw_label = <<>> THEN s_Unknown ELSE raw_label

\* the records of a table that carry the given id
WithId(table, id) == {table[i] : i \in {j \in 1..Len(table) : table[j].id = id}}

\* C12: the raw strings stay traceable. For every emitted trade, exactly one
\* legacy supplier carries the trade's supplier_id and its raw_variants
\* contain the trade's raw_supplier, and exactly one legacy client carries the
\* trade's client_id and its raw_variants contain the trade's raw_client; an
\* empty raw label is represented in raw_variants by "Unknown".
C12_RawVariantsTraceable ==
    \A i \in 1..Len(legacy_trades) :
        LET t == legacy_trades[i]
            sup == WithId(legacy_suppliers, t.supplier_id)
            cli == WithId(legacy_clients, t.client_id)
        IN  /\ Cardinality(sup) = 1
            /\ \A e \in sup : VariantOf(t.raw_supplier) \in Range(e.raw_variants)
            /\ Cardinality(cli) = 1
            /\ \A e \in cli : VariantOf(t.raw_client) \in Range(e.raw_variants)

\* a trade with the raw supplier "Galaxy Vic" points at the entity "Galaxy VIC",
\* and a trade with empty raw labels points at the two "Unknown" entities
C12_Witness ==
    \E i, j \in 1..Len(legacy_trades) :
        /\ legacy_trades[i].raw_supplier = s_Galaxy_Vic
        /\ \E e \in WithId(legacy_suppliers, legacy_trades[i].supplier_id) :
               e.supplier_clean = s_Galaxy_VIC /\ s_Galaxy_Vic \in Range(e.raw_variants)
        /\ legacy_trades[j].raw_supplier = <<>>
        /\ legacy_trades[j].raw_client = <<>>
        /\ \E e \in WithId(legacy_suppliers, legacy_trades[j].supplier_id) :
               s_Unknown \in Range(e.raw_variants)
        /\ \E e \in WithId(legacy_clients, legacy_trades[j].client_id) :
               s_Unknown \in Range(e.raw_variants)

\* every entity flagged in old is still an entity of new, and still flagged
FlagsKept(old, new) ==
    \A i \in 1..Len(old) :
        old[i].requires_review =>
            \E j \in 1..Len(new) : new[j].key = old[i].key /\ new[j].requires_review

\* the emitted tables carry the flags of the audits, entity by entity
FlagsCarried ==
    /\ legacy_suppliers # <<>> =>
           /\ Len(legacy_suppliers) = Len(supplier_audit)
           /\ \A i \in 1..Len(supplier_audit) :
                  /\ legacy_suppliers[i].supplier_clean = supplier_audit[i].clean_name
                  /\ legacy_suppliers[i].requires_review = supplier_audit[i].requires_review
    /\ legacy_clients # <<>> =>
           /\ Len(legacy_clients) = Len(client_audit)
           /\ \A i \in 1..Len(client_audit) :
                  /\ legacy_clients[i].client_clean = client_audit[i].client_clean
                  /\ legacy_clients[i].requires_review = client_audit[i].requires_review
    /\ suppliers_live # <<>> =>
           /\ Len(suppliers_live) = Len(supplier_audit)
           /\ \A i \in 1..Len(supplier_audit) :
                  /\ suppliers_live[i].supplier_name = supplier_audit[i].clean_name
                  /\ suppliers_live[i].requires_review = supplier_audit[i].requires_review

\* C13: requires_review is monotone during an aggregation pass. No step of
\* the run (a processed row, the sort, the final conflict check or any later
\* step) sets the requires_review of a supplier or client entity back to false
\* once it is true, and after every step the flags in legacy_suppliers,
\* legacy_clients and suppliers_live_seed equal the flags the audits hold at
\* the end of their pass.
C13_ReviewMonotone ==
    [][/\ FlagsKept(supplier_audit, supplier_audit')
       /\ FlagsKept(client_audit, client_audit')
       /\ FlagsCarried']_vars

\* the first supplier entity was flagged when it was created and rows were
\* processed after it; a client was flagged by the conflict check; both flags
\* are in the emitted tables
C13_Witness ==
    /\ pc = "write"
    /\ Len(supplier_audit) > 1
    /\ supplier_audit[1].requires_review
    /\ suppliers_live[1].requires_review
    /\ ~suppliers_live[2].requires_review
    /\ \E i \in 1..Len(legacy_clients) :
           legacy_clients[i].requires_review /\ legacy_clients[i].trade_count > 1

\* the whole-day part of a numeric cell: the value with its fraction dropped
\* (toward zero), found without dividing
WholeDays(c) ==
    IF c.t = "int" THEN c.n
    ELSE LET q == c.n \div 100
         IN  CHOOSE k \in (q - 1)..(q + 1) :
                 IF c.n >= 0 THEN 100 * k <= c.n /\ c.n < 100 * (k + 1)
                 ELSE 100 * (k - 1) < c.n /\ c.n <= 100 * k

\* <<year, month, day>> read off an ISO year-month-day string
IsoYmd(text) ==
    LET tok == SplitOn(text, 45)
    IN  <<ParseNat(tok[1]), ParseNat(tok[2]), ParseNat(tok[3])>>

\* the last day count that is a date: 9999-12-31
LastSerial == DaysFromCivil(9999, 12, 31) - DaysFromCivil(1899, 12, 30)

\* calendar dates of some day counts, from the calendar itself
KnownSerials ==
    {<<0, <<1899, 12, 30>>>>, <<1, <<1899, 12, 31>>>>, <<2, <<1900, 1, 1>>>>,
     <<60, <<1900, 2, 28>>>>, <<61, <<1900, 3, 1>>>>, <<36585, <<2000, 2, 29>>>>,
     <<44197, <<2021, 1, 1>>>>, <<45351, <<2024, 2, 29>>>>,
     <<2958465, <<9999, 12, 31>>>>}

\* C14: parse_excel_date of a numeric day count n within the representable
\* date range returns the calendar date n whole days after the epoch
\* 1899-12-30 (a valid date whose distance from the epoch is n, a fractional
\* count being truncated to its whole-day part), and parse_excel_date of that
\* date's ISO year-month-day string returns the same date; beyond the last
\* representable date it returns nothing.
C14_SerialDate ==
    (fn_call.fn = "parse_excel_date" /\ fn_call.arg.t \in {"int", "float"}) =>
        LET n == WholeDays(fn_call.arg)
            ymd == IsoYmd(fn_call.res)
        IN  IF n > LastSerial THEN fn_call.res = None
            ELSE /\ fn_call.res # None
                 /\ Len(fn_call.res) = 10
                 /\ ValidDate(ymd[1], ymd[2], ymd[3])
                 /\ DaysFromCivil(ymd[1], ymd[2], ymd[3]) - DaysFromCivil(1899, 12, 30) = n
                 /\ \A k \in KnownSerials : k[1] = n => ymd = k[2]
                 /\ parse_excel_date(PyStr(fn_call.res)) = fn_call.res
                 /\ parse_excel_date(PyStr(strftime(ymd))) = fn_call.res

\* the fractional day count 44197.99 gave 2021-01-01, the date of the day
\* count 44197 and of the string "2021-01-01"
C14_Witness ==
    /\ fn_call.fn = "parse_excel_date"
    /\ fn_call.arg = PyFloat(4419799)
    /\ fn_call.res = s_iso_2021_01_01
    /\ parse_excel_date(PyInt(44197)) = s_iso_2021_01_01
    /\ parse_excel_date(PyStr(s_iso_2021_01_01)) = s_iso_2021_01_01

\* the rows build_supplier_data files under the entity named clean
SupplierGroup(clean) ==
    {i \in 1..Len(all_rows) :
        normalize_supplier(audit_supplier_raw(all_rows[i].supplier_raw)).clean = clean}

\* the entity "Unknown" of a table is flagged; with_reason: and says why
UnknownFlagged(table, name_of(_), with_reason) ==
    \E i \in 1..Len(table) :
        /\ name_of(table[i]) = s_Unknown
        /\ table[i].requires_review
        /\ with_reason => table[i].reason = s_Empty_supplier

AuditName(e) == e.clean_name
LegacyName(e) == e.supplier_clean
SeedName(e) == e.supplier_name

\* C15: empty suppliers are recorded for review. Once the suppliers are
\* aggregated, if some row has an empty supplier_raw then the entity "Unknown"
\* of supplier_audit_table, of legacy_suppliers and of suppliers_live_seed has
\* requires_review = true, with the reason "Empty supplier" where the table
\* has a reason; and an entity's requires_review is true whenever
\* normalize_supplier of the supplier_raw of one of its rows returns
\* requires_review true.
C15_EmptySupplierFlagged ==
    pc \notin {"load_hope", "load_mc", "supplier"} =>
        /\ (\E i \in 1..Len(all_rows) : all_rows[i].supplier_raw = <<>>) =>
               /\ UnknownFlagged(supplier_audit, AuditName, TRUE)
               /\ legacy_suppliers # <<>> => UnknownFlagged(legacy_suppliers, LegacyName, TRUE)
               /\ suppliers_live # <<>> => UnknownFlagged(suppliers_live, SeedName, FALSE)
        /\ \A e \in 1..Len(supplier_audit) :
               \A i \in SupplierGroup(supplier_audit[e].clean_name) :
                   normalize_supplier(all_rows[i].supplier_raw).requires_review
                       => supplier_audit[e].requires_review

\* the sum of the trade_count fields of a table
RECURSIVE SumTradeCounts(_)
SumTradeCounts(table) ==
    IF table = <<>> THEN 0 ELSE Head(table).trade_count + SumTradeCounts(Tail(table))

\* C16: aggregation and join resolve every row to the same canonical key.
\* For every row, the supplier key of build_supplier_data (the empty label
\* replaced by "Unknown", then normalize_supplier) is the key
\* build_legacy_tables recomputes from the raw value, and the client key of
\* build_client_data is the key build_legacy_tables recomputes. Hence each
\* legacy supplier's trade_count is the number of row numbers its audit entity
\* records, and the trade_counts of legacy_suppliers, and of legacy_clients,
\* each sum to the number of rows.
C16_SameCanonicalKey ==
    pc \in {"legacy_trades", "live_seed", "write"} =>
        /\ \A i \in 1..Len(all_rows) :
               /\ normalize_supplier(audit_supplier_raw(all_rows[i].supplier_raw)).clean
                      = trade_supplier_clean(all_rows[i].supplier_raw)
               /\ audit_client_clean(all_rows[i].client_raw)
                      = trade_client_clean(all_rows[i].client_raw)
        /\ legacy_suppliers # <<>> =>
               /\ \A i \in 1..Len(legacy_suppliers) :
                      legacy_suppliers[i].trade_count = Len(supplier_audit[i].rows)
               /\ SumTradeCounts(legacy_suppliers) = Len(all_rows)
        /\ legacy_clients # <<>> => SumTradeCounts(legacy_clients) = Len(all_rows)

\* three rows gave a merged supplier with two trades and two raw labels, the
\* supplier "Unknown" with one trade, and clients whose counts sum to three
C16_Witness ==
    /\ pc = "write"
    /\ Len(all_rows) = 3
    /\ \E i, j \in 1..Len(legacy_suppliers) :
           /\ legacy_suppliers[i].trade_count = 2
           /\ Len(legacy_suppliers[i].raw_variants) = 2
           /\ legacy_suppliers[j].supplier_clean = s_Unknown
           /\ legacy_suppliers[j].trade_count = 1
    /\ Len(legacy_clients) = 2
    /\ SumTradeCounts(legacy_clients) = 3

\* the day number of an ISO date string
DayOf(text) == LET ymd == IsoYmd(text) IN DaysFromCivil(ymd[1], ymd[2], ymd[3])

\* the dates of the dated rows among the rows with the given positions
DatesOf(group) == {all_rows[i].date : i \in {j \in group : all_rows[j].date # None}}

\* first and last are the earliest and the latest of the dates, and both are
\* absent exactly when there is no date
SpansDates(first, last, dates) ==
    IF dates = {} THEN first = None /\ last = None
    ELSE /\ first \in dates
         /\ last \in dates
         /\ \A d \in dates : DayOf(first) <= DayOf(d) /\ DayOf(d) <= DayOf(last)
         /\ DayOf(first) <= DayOf(last)

\* first_seen and last_seen of the client entities, by key
ClientSpans(audit) ==
    {<<audit[i].key, audit[i].first_seen, audit[i].last_seen>> : i \in 1..Len(audit)}

\* C17: date ranges. Once the tables are built, for every legacy supplier and
\* every legacy client first_seen is the earliest and last_seen the latest of
\* the dates of the dated rows of its group; both are absent exactly when no
\* row of the group has a date; whenever present first_seen <= last_seen; and
\* the running minimum and maximum build_client_data keeps give the same
\* first_seen and last_seen for every order of the rows.
C17_DateRanges ==
    pc = "write" =>
        /\ \A i \in 1..Len(legacy_suppliers) :
               SpansDates(legacy_suppliers[i].first_seen, legacy_suppliers[i].last_seen,
                          DatesOf(SupplierGroup(legacy_suppliers[i].supplier_clean)))
        /\ \A i \in 1..Len(legacy_clients) :
               SpansDates(legacy_clients[i].first_seen, legacy_clients[i].last_seen,
                          DatesOf(ClientGroup(legacy_clients[i].client_clean)))
        /\ \A p \in RowOrders(Len(all_rows)) :
               ClientSpans(client_fold(<<>>, Permuted(all_rows, p), 1))
                   = ClientSpans(client_audit)

\* a client of three rows, a later date met before an earlier one, spans
\* 2021-01-01 to 2021-01-04, and a supplier spans two different dates
C17_Witness ==
    /\ pc = "write"
    /\ \E i \in 1..Len(legacy_clients) :
           /\ legacy_clients[i].trade_count = 3
           /\ legacy_clients[i].first_seen = s_iso_2021_01_01
           /\ DayOf(legacy_clients[i].last_seen) = DayOf(s_iso_2021_01_01) + 3
           /\ \E a, b \in ClientGroup(legacy_clients[i].client_clean) :
                  a < b /\ DayOf(all_rows[b].date) < DayOf(all_rows[a].date)
    /\ \E j \in 1..Len(legacy_suppliers) :
           /\ legacy_suppliers[j].first_seen # None
           /\ legacy_suppliers[j].first_seen # legacy_suppliers[j].last_seen

\* C18: no row content aborts a run. For every combination of cell values
\* of two readable sources, main never raises: the run does not end in the
\* ValueError of the summary, also when every date cell is unparseable or
\* empty and when a source has no data rows; and when the summary is reached,
\* every row has been emitted as a trade, with an unparseable date absent.
C18_NoRowAbortsRun ==
    /\ pc # "raised"
    /\ pc \in {"summary", "done"} =>
           /\ Len(outputs) = 6
           /\ Len(legacy_trades) = Len(all_rows)
           /\ \A i \in 1..Len(legacy_trades) :
                  legacy_trades[i].trade_date = None
                      \/ ValidDate(IsoYmd(legacy_trades[i].trade_date)[1],
                                   IsoYmd(legacy_trades[i].trade_date)[2],
                                   IsoYmd(legacy_trades[i].trade_date)[3])

=============================================================================
